---------------------------- MODULE Spec2Model ----------------------------
(***************************************************************************)
(* Model of incident_generator.py: the resumable batch-generation loop of  *)
(* main() with its export, cleanup and exception handlers, the response    *)
(* parser of generate_incident_batch(), the checkpoint store               *)
(* (load_existing_incidents / save_incidents_to_temp) and progress_lock.   *)
(*                                                                         *)
(* A text (a Python str, or the content of TEMP_FILE) is a sequence of     *)
(* one-character strings.  A record (one incident) is abstracted to the    *)
(* natural number the backend gave it as its "Number".                     *)
(***************************************************************************)
EXTENDS Integers, Sequences, FiniteSets, TLC

\* ------------------------------------------------------------------ bounds
MaxTarget == 3
MaxBatch == 2
MaxWorkers == 2
MaxExisting == 2
MaxFaults == 2
MaxLines == 3
MaxStoreLen == 3
MaxFenced == 2
MaxFailedRounds == 4

\* --------------------------------------------------------------- utilities
Min(a, b) == IF a <= b THEN a ELSE b

Max(a, b) == IF a >= b THEN a ELSE b

Range(s) == {s[k] : k \in 1..Len(s)}

\* The records offset+1 .. offset+n, in order.
Numbered(offset, n) == [k \in 1..n |-> offset + k]

\* ------------------------------------------------------------------- texts
LF == "\n"

SP == " "

\* The backtick, which a TLA+ string literal cannot hold, is written "~".
TICK == "~"

Whitespace == {SP, LF}

DigitChars == <<"0", "1", "2", "3", "4", "5", "6", "7", "8", "9">>

IsDigit(c) == c \in Range(DigitChars)

DigitVal(c) == CHOOSE d \in 0..9 : DigitChars[d + 1] = c

\* str(n) for a natural number, as json.dump writes an integer.
RECURSIVE int_to_text(_)
int_to_text(n) ==
    IF n < 10 THEN <<DigitChars[n + 1]>>
    ELSE int_to_text(n \div 10) \o <<DigitChars[(n % 10) + 1]>>

\* str.strip(): leading and trailing whitespace removed.
RECURSIVE lstrip(_)
lstrip(t) == IF t # <<>> /\ Head(t) \in Whitespace THEN lstrip(Tail(t)) ELSE t

RECURSIVE rstrip(_)
rstrip(t) ==
    IF t # <<>> /\ t[Len(t)] \in Whitespace
    THEN rstrip(SubSeq(t, 1, Len(t) - 1)) ELSE t

strip(t) == rstrip(lstrip(t))

\* The fence marker: three backticks.
Fence == <<TICK, TICK, TICK>>

\* str.startswith of three backticks
startswith_fence(t) ==
    Len(t) >= 3 /\ t[1] = TICK /\ t[2] = TICK /\ t[3] = TICK

\* str.split("\n"): always at least one line.
RECURSIVE split_lines(_)
split_lines(t) ==
    IF \A k \in 1..Len(t) : t[k] # LF THEN <<t>>
    ELSE LET p == CHOOSE k \in 1..Len(t) :
                     t[k] = LF /\ \A m \in 1..(k - 1) : t[m] # LF
         IN <<SubSeq(t, 1, p - 1)>> \o split_lines(SubSeq(t, p + 1, Len(t)))

\* "\n".join(lines)
RECURSIVE join_lines(_)
join_lines(ls) ==
    IF ls = <<>> THEN <<>>
    ELSE IF Len(ls) = 1 THEN ls[1]
    ELSE ls[1] \o <<LF>> \o join_lines(Tail(ls))

\* ---------------------------------------------------------------- JSON text
\* json.dump(incidents, f, indent=2): "[]" for the empty list, else one
\* record per line, indented by two spaces.
\* Mutant: the item separator is left out.
RECURSIVE dump_items_no_separator(_)
dump_items_no_separator(incidents) ==
    IF Len(incidents) = 1 THEN <<LF, SP, SP>> \o int_to_text(incidents[1])
    ELSE <<LF, SP, SP>> \o int_to_text(Head(incidents))
         \o dump_items_no_separator(Tail(incidents))

RECURSIVE dump_items(_)
dump_items(incidents) ==
    IF Len(incidents) = 1 THEN <<LF, SP, SP>> \o int_to_text(incidents[1])
    ELSE <<LF, SP, SP>> \o int_to_text(Head(incidents)) \o <<",">>
         \o dump_items(Tail(incidents))

json_dump(incidents) ==
    IF incidents = <<>> THEN <<"[", "]">>
    ELSE <<"[">> \o dump_items(incidents) \o <<LF, "]">>

\* json.loads(text) on the JSON subset of the model: a natural number or an
\* array of natural numbers, with whitespace between tokens.  The scanner
\* state st is where the decoder stands; acc the elements decoded so far;
\* cur the number being read.
JsonError == [kind |-> "error", value |-> <<>>]

RECURSIVE json_scan(_, _, _, _, _)
json_scan(t, pos, st, acc, cur) ==
    IF pos > Len(t) THEN
        IF st = "closed" THEN [kind |-> "list", value |-> acc]
        ELSE IF st \in {"topnum", "topzero"} THEN [kind |-> "scalar", value |-> <<cur>>]
        ELSE IF st = "topend" THEN [kind |-> "scalar", value |-> acc]
        ELSE JsonError
    ELSE LET c == t[pos] IN
        CASE st = "start" ->
                IF c \in Whitespace THEN json_scan(t, pos + 1, "start", acc, cur)
                ELSE IF c = "[" THEN json_scan(t, pos + 1, "open", acc, cur)
                ELSE IF c = "0" THEN json_scan(t, pos + 1, "topzero", acc, 0)
                ELSE IF IsDigit(c) THEN json_scan(t, pos + 1, "topnum", acc, DigitVal(c))
                ELSE JsonError
          [] st \in {"open", "comma"} ->
                IF c \in Whitespace THEN json_scan(t, pos + 1, st, acc, cur)
                ELSE IF c = "]" /\ st = "open" THEN json_scan(t, pos + 1, "closed", acc, cur)
                ELSE IF c = "0" THEN json_scan(t, pos + 1, "zero", acc, 0)
                ELSE IF IsDigit(c) THEN json_scan(t, pos + 1, "num", acc, DigitVal(c))
                ELSE JsonError
          [] st \in {"num", "zero"} ->
                IF IsDigit(c) /\ st = "num"
                THEN json_scan(t, pos + 1, "num", acc, 10 * cur + DigitVal(c))
                ELSE IF c \in Whitespace
                THEN json_scan(t, pos + 1, "afterelem", Append(acc, cur), 0)
                ELSE IF c = "," THEN json_scan(t, pos + 1, "comma", Append(acc, cur), 0)
                ELSE IF c = "]" THEN json_scan(t, pos + 1, "closed", Append(acc, cur), 0)
                ELSE JsonError
          [] st = "afterelem" ->
                IF c \in Whitespace THEN json_scan(t, pos + 1, st, acc, cur)
                ELSE IF c = "," THEN json_scan(t, pos + 1, "comma", acc, cur)
                ELSE IF c = "]" THEN json_scan(t, pos + 1, "closed", acc, cur)
                ELSE JsonError
          [] st \in {"topnum", "topzero"} ->
                IF IsDigit(c) /\ st = "topnum"
                THEN json_scan(t, pos + 1, "topnum", acc, 10 * cur + DigitVal(c))
                ELSE IF c \in Whitespace
                THEN json_scan(t, pos + 1, "topend", <<cur>>, 0)
                ELSE JsonError
          [] st \in {"closed", "topend"} ->
                IF c \in Whitespace THEN json_scan(t, pos + 1, st, acc, cur)
                ELSE JsonError

json_loads(t) == json_scan(t, 1, "start", <<>>, 0)

\* ----------------------------------------------------------- response parser
\* The comprehension of the "Remove potential markdown code blocks" branch:
\* the lines that do not start with a fence marker, in order.
\* Mutant: only the lines that are exactly a fence marker are dropped.
drop_bare_fence_lines(ls) == SelectSeq(ls, LAMBDA l : l # Fence)

drop_fence_lines(ls) == SelectSeq(ls, LAMBDA l : ~startswith_fence(l))

\* The branch itself: taken only when the (stripped) content starts with a
\* fence marker; the kept lines are joined again and stripped.
remove_code_fences(c) ==
    IF startswith_fence(c)
    THEN strip(join_lines(drop_fence_lines(split_lines(c))))
    ELSE c

\* json.loads and the isinstance check: the records, or the exception raised.
decode_incidents(c) ==
    LET v == json_loads(c) IN
    IF v.kind = "error" THEN [ok |-> FALSE, incidents |-> <<>>, err |-> "JSONDecodeError"]
    ELSE IF v.kind # "list" THEN [ok |-> FALSE, incidents |-> <<>>, err |-> "ValueError"]
    ELSE [ok |-> TRUE, incidents |-> v.value, err |-> "none"]

\* generate_incident_batch from the backend's answer on: resp.raised is a
\* failed backend call (the exception leaves the function), otherwise
\* resp.content is the raw text, which is stripped, unfenced and decoded.
generate_incident_batch(resp) ==
    IF resp.raised
    THEN [ok |-> FALSE, incidents |-> <<>>, err |-> "BackendError"]
    ELSE decode_incidents(remove_code_fences(strip(resp.content)))

\* ----------------------------------------------------------- checkpoint store
NoFile == [exists |-> FALSE, text |-> <<>>]

FileOf(t) == [exists |-> TRUE, text |-> t]

\* Mutant: a decoded value that is no list is taken as a list of one record.
load_existing_incidents_wrapping(f) ==
    IF f.exists
    THEN LET v == json_loads(f.text) IN
         IF v.kind = "error" THEN <<>> ELSE v.value
    ELSE <<>>

\* Mutant: the last record of the file is not loaded.
load_existing_incidents_all_but_last(f) ==
    IF f.exists
    THEN LET v == json_loads(f.text) IN
         IF v.kind = "list" THEN SubSeq(v.value, 1, Len(v.value) - 1) ELSE <<>>
    ELSE <<>>

\* load_existing_incidents: the decoded list; [] when TEMP_FILE is absent or
\* json.load or len() raises.
load_existing_incidents(f) ==
    IF f.exists
    THEN LET v == json_loads(f.text) IN
         IF v.kind = "list" THEN v.value ELSE <<>>
    ELSE <<>>

\* What json.dump has handed to the file when a write fails after k records:
\* nothing for k = 0, else the text up to and including the k-th record.
partial_dump(incidents, k) ==
    IF k = 0 THEN <<>>
    ELSE LET whole == dump_items(SubSeq(incidents, 1, k)) IN <<"[">> \o whole

\* What the environment does to one save: it succeeds, open() fails (the file
\* is left as it was), or a write fails after open(..., 'w') truncated the
\* file and cut records of the text reached it.
SaveOk == [kind |-> "ok", cut |-> 0]

SaveFailures(incidents) ==
    {[kind |-> "open_fails", cut |-> 0]}
    \cup {[kind |-> "write_fails", cut |-> c] : c \in 0..Max(0, Len(incidents) - 1)}

\* Mutant: the last record is not written.
save_all_but_last(f, incidents, io) ==
    CASE io.kind = "ok" ->
            [file |-> FileOf(json_dump(SubSeq(incidents, 1, Len(incidents) - 1))),
             raised |-> FALSE]
      [] io.kind = "open_fails" -> [file |-> f, raised |-> FALSE]
      [] io.kind = "write_fails" ->
            [file |-> FileOf(partial_dump(incidents, io.cut)), raised |-> FALSE]

\* Mutant: no try/except, an I/O error leaves the function.
save_incidents_to_temp_raising(f, incidents, io) ==
    CASE io.kind = "ok" -> [file |-> FileOf(json_dump(incidents)), raised |-> FALSE]
      [] io.kind = "open_fails" -> [file |-> f, raised |-> TRUE]
      [] io.kind = "write_fails" ->
            [file |-> FileOf(partial_dump(incidents, io.cut)), raised |-> TRUE]

\* save_incidents_to_temp: the file afterwards, and whether an exception
\* leaves the function (never: the except branch only prints).
save_incidents_to_temp(f, incidents, io) ==
    CASE io.kind = "ok" -> [file |-> FileOf(json_dump(incidents)), raised |-> FALSE]
      [] io.kind = "open_fails" -> [file |-> f, raised |-> FALSE]
      [] io.kind = "write_fails" ->
            [file |-> FileOf(partial_dump(incidents, io.cut)), raised |-> FALSE]

\* ------------------------------------------------------------------- state
VARIABLES
    total_incidents,   \* the target T read from the user
    BATCH_SIZE,        \* generation.batch_size
    NUM_WORKERS,       \* generation.num_workers
    backend,           \* how the backend behaves in this run: "any" | "third" | "down"
    file,              \* TEMP_FILE
    all_incidents,     \* the collection
    existing_count,    \* len(all_incidents) after the load
    pc,                \* where main() stands
    remaining,         \* main's local of the same name
    nbatches,          \* the bound of the for loop's range()
    i,                 \* the for loop's index
    futures,           \* the round's futures, in submission order
    rounds,            \* rounds started so far
    roundStart,        \* len(all_incidents) when the round started
    submitted,         \* jobs submitted so far, over all rounds
    requested,         \* the sum of their requested counts
    failedRequested,   \* the requested counts of the jobs that failed
    inexact,           \* a successful job returned another count than asked
    okOffsets,         \* offsets of the successful batches of earlier rounds
    failedOffsets,     \* offsets of the failed batches of earlier rounds
    okBatches,         \* successful batches collected so far
    lastBatch,         \* the records of the batch appended last
    saveCalls,         \* calls of save_incidents_to_temp so far
    failedSaves,       \* those that failed
    lastSave,          \* "none" | "ok" | "failed": the last call's outcome
    faults,            \* injected faults so far (bounded by MaxFaults)
    raw,               \* parser run: the backend's raw text
    content,           \* parser run: the local variable content
    lines,             \* parser run: the local variable lines
    parsed,            \* parser run: the result
    sample,            \* parser run: how raw was built
    loaded,            \* store run: what load_existing_incidents returned
    early_finished,    \* as_completed: futures already finished when it was called
    finished_futures,  \* futures finished and not yet yielded, in completion order
    output,            \* OUTPUT_FILE
    progress_lock,     \* the thread that holds progress_lock, if any
    writers,           \* handles open for writing on TEMP_FILE
    startFile,         \* TEMP_FILE as it was at process start (where recorded)
    cleanup            \* main's local of the same name: the answer, "" before

mainVars == <<total_incidents, BATCH_SIZE, NUM_WORKERS, backend, file,
              all_incidents, existing_count, pc, remaining, nbatches, i,
              futures>>

mainVarsButPc == <<total_incidents, BATCH_SIZE, NUM_WORKERS, backend, file,
                   all_incidents, existing_count, remaining, nbatches, i,
                   futures>>

histVars == <<rounds, roundStart, submitted, requested, failedRequested,
              inexact, okOffsets, failedOffsets, okBatches, lastBatch, saveCalls, failedSaves,
              lastSave, faults>>

parseVars == <<raw, content, lines, parsed, sample>>

poolVars == <<early_finished, finished_futures>>

extVars == <<output, progress_lock, writers, startFile, cleanup>>

vars == <<mainVars, histVars, parseVars, loaded, poolVars, extVars>>

NoResult == [ok |-> FALSE, incidents |-> <<>>, err |-> "none"]

NoSample == [kind |-> "none", array |-> <<>>]

ParseIdle ==
    /\ raw = <<>>
    /\ content = <<>>
    /\ lines = <<>>
    /\ parsed = NoResult
    /\ sample = NoSample

HistInit ==
    /\ rounds = 0
    /\ roundStart = 0
    /\ submitted = 0
    /\ requested = 0
    /\ failedRequested = 0
    /\ inexact = FALSE
    /\ okOffsets = {}
    /\ failedOffsets = {}
    /\ okBatches = 0
    /\ lastBatch = <<>>
    /\ saveCalls = 0
    /\ failedSaves = 0
    /\ lastSave = "none"
    /\ faults = 0

\* No output file; as_completed not called; the lock free; TEMP_FILE closed.
NoOutput == [exists |-> FALSE, rows |-> <<>>]

\* The holders of progress_lock: nobody, the main thread, the worker of job j.
Unlocked == [thread |-> "none", job |-> 0]

MainThread == [thread |-> "main", job |-> 0]

Worker(j) == [thread |-> "worker", job |-> j]

ExtInit ==
    /\ early_finished = {}
    /\ finished_futures = <<>>
    /\ output = NoOutput
    /\ progress_lock = Unlocked
    /\ writers = 0
    /\ cleanup = ""

\* The end-to-end scenario: target 10, batch size 4, two workers.
EndToEnd == [T |-> 10, B |-> 4, W |-> 2]

\* The configurations of a run: target, batch size, workers.
Configs ==
    {[T |-> t, B |-> b, W |-> w] :
        t \in 1..MaxTarget, b \in 1..MaxBatch, w \in 1..MaxWorkers}
    \cup {EndToEnd}

\* TEMP_FILE at process start: absent, or the checkpoint of an earlier run.
StartFiles == {NoFile} \cup {FileOf(json_dump(Numbered(0, k))) : k \in 0..MaxExisting}

\* The state when main() is about to load the checkpoint.
InitWith(mode, configs, files, recorded) ==
    /\ \E c \in configs :
        /\ total_incidents = c.T
        /\ BATCH_SIZE = c.B
        /\ NUM_WORKERS = c.W
    /\ backend = mode
    /\ file \in files
    /\ all_incidents = <<>>
    /\ existing_count = 0
    /\ pc = "load"
    /\ remaining = 0
    /\ nbatches = 0
    /\ i = 0
    /\ futures = <<>>
    /\ HistInit
    /\ ExtInit
    /\ startFile = IF recorded THEN file ELSE NoFile
    /\ ParseIdle
    /\ loaded = <<>>

InitRun(mode) == InitWith(mode, Configs, StartFiles, FALSE)

Init == InitRun("any")

\* ------------------------------------------------------------------ backend
\* The text a backend that honours the prompt returns for a job: the records
\* offset+1 .. offset+n as a JSON array.
AnswerText(offset, n) == json_dump(Numbered(offset, n))

\* The same text inside a fenced code block with a language tag.
Fenced(t) ==
    <<TICK, TICK, TICK, "j", "s", "o", "n", LF>> \o t \o <<LF, TICK, TICK, TICK>>

Answer(t) == [raised |-> FALSE, content |-> t]

BackendError == [raised |-> TRUE, content |-> <<>>]

\* What the backend call of a job may produce.  A backend of kind "any"
\* answers as asked, fenced or not (fenced only to the first MaxFenced jobs
\* of the run), or (while the fault budget lasts) fails,
\* returns text that is no JSON, a JSON value that is no array, or an array
\* of another length than asked; a backend of kind "third" fails every third
\* job and otherwise answers exactly as asked; with a backend of kind "down"
\* every job fails: the call raises, or the text is no JSON.
BackendAnswers(job) ==
    IF backend = "third"
    THEN IF job.seq % 3 = 0 THEN {BackendError}
         ELSE {Answer(AnswerText(job.offset, job.size))}
    ELSE IF backend = "down"
    THEN {BackendError, Answer(<<"[", "1", ",">>)}
    ELSE {Answer(AnswerText(job.offset, job.size))}
         \cup (IF job.seq <= MaxFenced
               THEN {Answer(Fenced(AnswerText(job.offset, job.size)))}
               ELSE {})
         \cup (IF faults < MaxFaults
               THEN {BackendError, Answer(<<"[", "1", ",">>), Answer(<<"7">>)}
                    \cup {Answer(AnswerText(job.offset, n)) :
                            n \in (0..(job.size + 1)) \ {job.size}}
               ELSE {})

\* ------------------------------------------------------- main(): the rounds
\* No run of the model starts more rounds than this.
RoundCap == 2 * Max(MaxTarget, EndToEnd.T) + MaxFaults + 2

\* Against the backend that is down, whose rounds never end by themselves,
\* no run of the model starts more rounds than MaxFailedRounds.
RoundLimit == IF backend = "down" THEN MaxFailedRounds ELSE RoundCap

\* Mutant: the loop gives up after three rounds.
loop_condition_with_ceiling == Len(all_incidents) < total_incidents /\ rounds < 3

\* Mutant: the loop ends one record short of the target.
loop_condition_one_short == Len(all_incidents) + 1 < total_incidents

\* Mutant: the loop goes on while the target is not exceeded.
loop_condition_inclusive == Len(all_incidents) <= total_incidents

\* The while condition.
loop_condition == Len(all_incidents) < total_incidents

\* Mutant: the number of batches is not capped by the number of workers.
num_batches_uncapped(rem) == (rem + BATCH_SIZE - 1) \div BATCH_SIZE

\* Mutant: the number of batches is rounded down.
num_batches_floor(rem) == Min(NUM_WORKERS, rem \div BATCH_SIZE)

\* The bound of range() in the for statement.
num_batches(rem) == Min(NUM_WORKERS, (rem + BATCH_SIZE - 1) \div BATCH_SIZE)

\* The first break: the round already covers the target.
round_covers_target(k) ==
    Len(all_incidents) + (k * BATCH_SIZE) >= total_incidents

\* Mutant: the last batch of a round is not clipped to what is missing.
current_batch_size_unclipped(k) == BATCH_SIZE

\* Mutant: the size is clipped to what the round is missing as a whole.
current_batch_size_of_round(k) == Min(BATCH_SIZE, remaining)

current_batch_size(k) ==
    Min(BATCH_SIZE, total_incidents - Len(all_incidents) - (k * BATCH_SIZE))

\* Mutant: the index is not scaled by the batch size.
batch_start_count_unscaled(k) == Len(all_incidents) + k

batch_start_count(k) == Len(all_incidents) + (k * BATCH_SIZE)

\* Load existing incidents; a target already met asks the user first.
LoadExisting ==
    /\ pc = "load"
    /\ all_incidents' = load_existing_incidents(file)
    /\ existing_count' = Len(all_incidents')
    /\ pc' = IF existing_count' >= total_incidents THEN "ask" ELSE "while"
    /\ UNCHANGED <<total_incidents, BATCH_SIZE, NUM_WORKERS, backend, file,
                   remaining, nbatches, i, futures>>
    /\ UNCHANGED <<histVars, parseVars, loaded, poolVars, extVars>>

\* "Do you want to start from scratch? (y/n)"
AskOverwrite ==
    /\ pc = "ask"
    /\ \E overwrite \in {"y", "n"} :
        IF overwrite = "y"
        THEN /\ all_incidents' = <<>>
             /\ existing_count' = 0
             /\ file' = NoFile
             /\ pc' = "while"
        ELSE /\ pc' = "export_only"
             /\ UNCHANGED <<all_incidents, existing_count, file>>
    /\ UNCHANGED <<total_incidents, BATCH_SIZE, NUM_WORKERS, backend,
                   remaining, nbatches, i, futures>>
    /\ UNCHANGED <<histVars, parseVars, loaded, poolVars, extVars>>

\* The while test; a new round computes remaining and the range of the for.
WhileCheck ==
    /\ pc = "while"
    /\ IF loop_condition
       THEN /\ rounds < RoundLimit
            /\ remaining' = total_incidents - Len(all_incidents)
            /\ nbatches' = num_batches(remaining')
            /\ i' = 0
            /\ futures' = <<>>
            /\ rounds' = rounds + 1
            /\ roundStart' = Len(all_incidents)
            /\ okOffsets' = okOffsets
                  \cup {futures[j].offset : j \in {m \in 1..Len(futures) : futures[m].ok}}
            /\ failedOffsets' = failedOffsets
                  \cup {futures[j].offset : j \in {m \in 1..Len(futures) : ~futures[m].ok}}
            /\ early_finished' = {}
            /\ finished_futures' = <<>>
            /\ pc' = "for"
       ELSE /\ pc' = "done"
            /\ UNCHANGED <<remaining, nbatches, i, futures, rounds, roundStart,
                           okOffsets, failedOffsets, poolVars>>
    /\ UNCHANGED <<total_incidents, BATCH_SIZE, NUM_WORKERS, backend, file,
                   all_incidents, existing_count>>
    /\ UNCHANGED <<submitted, requested, failedRequested, inexact, okBatches,
                   lastBatch, saveCalls, failedSaves, lastSave, faults>>
    /\ UNCHANGED <<parseVars, loaded, extVars>>

\* as_completed(futures), when called: the futures that are finished already
\* are set apart (they are yielded first, in the order of a set); a waiter
\* is installed on the others.
already_finished == {j \in 1..Len(futures) : futures[j].status = "finished"}

\* One iteration of the for loop: a break (and as_completed is called), or
\* one executor.submit.
ForStep ==
    /\ pc = "for"
    /\ IF i >= nbatches \/ round_covers_target(i) \/ current_batch_size(i) <= 0
       THEN /\ pc' = "collect"
            /\ early_finished' = already_finished
            /\ UNCHANGED <<i, futures, submitted, requested, finished_futures>>
       ELSE /\ futures' = Append(futures,
                  [offset |-> batch_start_count(i), size |-> current_batch_size(i),
                   seq |-> submitted + 1, status |-> "running", ok |-> FALSE,
                   incidents |-> <<>>, err |-> "none"])
            /\ submitted' = submitted + 1
            /\ requested' = requested + current_batch_size(i)
            /\ i' = i + 1
            /\ pc' = "for"
            /\ UNCHANGED poolVars
    /\ UNCHANGED <<total_incidents, BATCH_SIZE, NUM_WORKERS, backend, file,
                   all_incidents, existing_count, remaining, nbatches>>
    /\ UNCHANGED <<rounds, roundStart, failedRequested, inexact, okOffsets, failedOffsets,
                   okBatches, lastBatch, saveCalls, failedSaves, lastSave,
                   faults>>
    /\ UNCHANGED <<parseVars, loaded, extVars>>

\* A worker thread runs generate_incident_batch to its end: the future holds
\* the records or the exception.
JobRun(j) ==
    /\ futures[j].status = "running"
    /\ \E resp \in BackendAnswers(futures[j]) :
        LET r == generate_incident_batch(resp)
            exact == r.ok /\ Len(r.incidents) = futures[j].size
        IN /\ futures' = [futures EXCEPT ![j].status = "finished",
                                         ![j].ok = r.ok,
                                         ![j].incidents = r.incidents,
                                         ![j].err = r.err]
           /\ failedRequested' =
                 IF r.ok THEN failedRequested ELSE failedRequested + futures[j].size
           /\ inexact' = (inexact \/ (r.ok /\ ~exact))
           /\ faults' = IF backend = "any" /\ ~exact THEN faults + 1 ELSE faults
    /\ finished_futures' = Append(finished_futures, j)
    /\ UNCHANGED early_finished
    /\ UNCHANGED <<total_incidents, BATCH_SIZE, NUM_WORKERS, backend, file,
                   all_incidents, existing_count, pc, remaining, nbatches, i>>
    /\ UNCHANGED <<rounds, roundStart, submitted, requested, okOffsets, failedOffsets,
                   okBatches, lastBatch, saveCalls, failedSaves, lastSave>>
    /\ UNCHANGED <<parseVars, loaded, extVars>>

\* Mutant: the exception of a failed batch leaves the collection loop.
on_batch_failure_abort == "aborted"

\* Where main() goes on after the except branch of the collection loop
\* ("Continue with other batches"): the loop takes the next future.
on_batch_failure == "collect"

\* Mutant: as_completed yields the finished futures in any order.
next_completed_any_order == already_finished

\* The futures as_completed may yield next: one of those that were finished
\* when it was called, in no order (it keeps them in a set); once these are
\* exhausted, the one that finished first of those that finished since (its
\* waiter keeps these in a list).
next_completed ==
    IF early_finished # {} THEN early_finished
    ELSE IF finished_futures # <<>> THEN {Head(finished_futures)}
    ELSE {}

\* Mutant: the batch takes the place of the collection.
extend_replacing(incidents, batch) == batch

\* all_incidents.extend(batch): the batch is added at the end.
extend(incidents, batch) == incidents \o batch

\* as_completed yields a finished future: future.result() returns the batch,
\* which is appended, or raises, which is printed.
CollectTo(j, except_pc) ==
    /\ pc = "collect"
    /\ futures[j].status = "finished"
    /\ j \in next_completed
    /\ futures' = [futures EXCEPT ![j].status = "yielded"]
    /\ early_finished' = early_finished \ {j}
    /\ finished_futures' = SelectSeq(finished_futures, LAMBDA m : m # j)
    /\ IF futures[j].ok
       THEN /\ all_incidents' = extend(all_incidents, futures[j].incidents)
            /\ okBatches' = okBatches + 1
            /\ lastBatch' = futures[j].incidents
            /\ pc' = "save"
       ELSE /\ pc' = except_pc
            /\ UNCHANGED <<all_incidents, okBatches, lastBatch>>
    /\ UNCHANGED <<total_incidents, BATCH_SIZE, NUM_WORKERS, backend, file,
                   existing_count, remaining, nbatches, i>>
    /\ UNCHANGED <<rounds, roundStart, submitted, requested, failedRequested,
                   inexact, okOffsets, failedOffsets, saveCalls, failedSaves, lastSave, faults>>
    /\ UNCHANGED <<parseVars, loaded, extVars>>

\* The except branch prints the failure and the loop goes on.
Collect(j) == CollectTo(j, on_batch_failure)

\* save_incidents_to_temp(all_incidents) after the append.
Save ==
    /\ pc = "save"
    /\ \E io \in {SaveOk} \cup (IF faults < MaxFaults
                                THEN SaveFailures(all_incidents) ELSE {}) :
        LET r == save_incidents_to_temp(file, all_incidents, io)
        IN /\ file' = r.file
           /\ pc' = IF r.raised THEN "aborted" ELSE "collect"
           /\ lastSave' = IF io.kind = "ok" THEN "ok" ELSE "failed"
           /\ failedSaves' = IF io.kind = "ok" THEN failedSaves ELSE failedSaves + 1
           /\ faults' = IF io.kind = "ok" THEN faults ELSE faults + 1
    /\ saveCalls' = saveCalls + 1
    /\ UNCHANGED <<total_incidents, BATCH_SIZE, NUM_WORKERS, backend,
                   all_incidents, existing_count, remaining, nbatches, i,
                   futures>>
    /\ UNCHANGED <<rounds, roundStart, submitted, requested, failedRequested,
                   inexact, okOffsets, failedOffsets, okBatches, lastBatch>>
    /\ UNCHANGED <<parseVars, loaded, poolVars, extVars>>

\* Mutant: the collection loop ends with the first future it was given.
as_completed_exhausted_early ==
    \E j \in 1..Len(futures) : futures[j].status = "yielded"

\* as_completed is exhausted: every future of the round was yielded.
as_completed_exhausted ==
    \A j \in 1..Len(futures) : futures[j].status = "yielded"

\* The for statement over as_completed ends, and with it the round.
RoundEnd ==
    /\ pc = "collect"
    /\ as_completed_exhausted
    /\ pc' = "while"
    /\ UNCHANGED <<total_incidents, BATCH_SIZE, NUM_WORKERS, backend, file,
                   all_incidents, existing_count, remaining, nbatches, i,
                   futures>>
    /\ UNCHANGED <<histVars, parseVars, loaded, poolVars, extVars>>

Next ==
    \/ LoadExisting
    \/ AskOverwrite
    \/ WhileCheck
    \/ ForStep
    \/ \E j \in 1..Len(futures) : JobRun(j)
    \/ \E j \in 1..Len(futures) : Collect(j)
    \/ Save
    \/ RoundEnd

Spec == Init /\ [][Next]_vars

\* A run against the backend that fails every third job.  The main thread
\* and the pool's workers all keep running, so a step that can be taken is
\* eventually taken.
InitThird == InitRun("third")

SpecThird == InitThird /\ [][Next]_vars /\ WF_vars(Next)

\* A run against a backend that fails: every third job, or every job.  The
\* scheduling is that of SpecThird.
InitFail == InitRun("third") \/ InitRun("down")

SpecFail == InitFail /\ [][Next]_vars /\ WF_vars(Next)

\* ------------------------------------- main(): export, cleanup, handlers
\* export_to_xlsx: OUTPUT_FILE afterwards, and whether the exception of a
\* failed export leaves the function (it is printed and raised again).
ExportOutcomes == {"ok", "fails"}

\* Mutant: no more rows than the target are exported.
export_to_xlsx_up_to_target(out, incidents, io) ==
    IF io = "ok"
    THEN [output |-> [exists |-> TRUE,
                      rows |-> SubSeq(incidents, 1, Min(Len(incidents), total_incidents))],
          raised |-> FALSE]
    ELSE [output |-> out, raised |-> TRUE]

export_to_xlsx(out, incidents, io) ==
    IF io = "ok"
    THEN [output |-> [exists |-> TRUE, rows |-> incidents], raised |-> FALSE]
    ELSE [output |-> out, raised |-> TRUE]

\* Mutant: the temporary file is removed whatever the answer.
cleanup_file_always(f, answer) == NoFile

\* The cleanup after the export: os.remove(TEMP_FILE) on the answer "y".
cleanup_file(f, answer) == IF answer = "y" THEN NoFile ELSE f

\* Where main() stands inside the with block of the executor.
InPool == pc \in {"while", "for", "collect", "save"}

\* The try block after the with block: the export and the cleanup prompt.
AfterPool == pc \in {"done", "cleanup"}

\* export_to_xlsx(all_incidents) after "GENERATION COMPLETED"; an exception
\* goes to the handler of the try statement.
Export ==
    /\ pc = "done"
    /\ \E io \in ExportOutcomes :
        LET r == export_to_xlsx(output, all_incidents, io)
        IN /\ output' = r.output
           /\ pc' = IF r.raised THEN "except_Exception" ELSE "cleanup"
    /\ UNCHANGED <<mainVarsButPc, histVars, parseVars, loaded, poolVars>>
    /\ UNCHANGED <<progress_lock, writers, startFile, cleanup>>

\* "Proceeding with export": export_to_xlsx(all_incidents) and return; this
\* call is outside the try statement.
ExportOnly ==
    /\ pc = "export_only"
    /\ \E io \in ExportOutcomes :
        LET r == export_to_xlsx(output, all_incidents, io)
        IN /\ output' = r.output
           /\ pc' = IF r.raised THEN "raised" ELSE "returned"
    /\ UNCHANGED <<mainVarsButPc, histVars, parseVars, loaded, poolVars>>
    /\ UNCHANGED <<progress_lock, writers, startFile, cleanup>>

\* "Do you want to delete the temporary file?"
Cleanup ==
    /\ pc = "cleanup"
    /\ \E answer \in {"y", "n"} :
        /\ cleanup' = answer
        /\ file' = cleanup_file(file, answer)
    /\ pc' = "finished"
    /\ UNCHANGED <<total_incidents, BATCH_SIZE, NUM_WORKERS, backend,
                   all_incidents, existing_count, remaining, nbatches, i,
                   futures>>
    /\ UNCHANGED <<histVars, parseVars, loaded, poolVars>>
    /\ UNCHANGED <<output, progress_lock, writers, startFile>>

\* KeyboardInterrupt is raised in the main thread: inside the with block the
\* executor is shut down first (its exit waits for the running jobs), after
\* it the handler runs at once.
Interrupt ==
    /\ InPool \/ AfterPool
    /\ pc' = IF InPool THEN "exit_pool_interrupt" ELSE "except_KeyboardInterrupt"
    /\ UNCHANGED <<mainVarsButPc, histVars, parseVars, loaded, poolVars, extVars>>

\* KeyboardInterrupt is raised while save_incidents_to_temp is writing: its
\* except clause (Exception) does not take it, and the file keeps what had
\* been written.
InterruptSave ==
    /\ pc = "save"
    /\ \E c \in 0..Max(0, Len(all_incidents) - 1) :
        file' = FileOf(partial_dump(all_incidents, c))
    /\ saveCalls' = saveCalls + 1
    /\ failedSaves' = failedSaves + 1
    /\ lastSave' = "failed"
    /\ pc' = "exit_pool_interrupt"
    /\ UNCHANGED <<total_incidents, BATCH_SIZE, NUM_WORKERS, backend,
                   all_incidents, existing_count, remaining, nbatches, i,
                   futures>>
    /\ UNCHANGED <<rounds, roundStart, submitted, requested, failedRequested,
                   inexact, okOffsets, failedOffsets, okBatches, lastBatch, faults>>
    /\ UNCHANGED <<parseVars, loaded, poolVars, extVars>>

\* executor.submit raises (no thread can be started): an exception that is
\* no job's; it leaves the with block.
SubmitFails ==
    /\ pc = "for"
    /\ ~(i >= nbatches \/ round_covers_target(i) \/ current_batch_size(i) <= 0)
    /\ pc' = "exit_pool_error"
    /\ UNCHANGED <<mainVarsButPc, histVars, parseVars, loaded, poolVars, extVars>>

\* The exit of the with block while an exception propagates:
\* executor.shutdown(wait=True) returns when no job runs any more.
ExitPool ==
    /\ pc \in {"exit_pool_interrupt", "exit_pool_error"}
    /\ \A j \in 1..Len(futures) : futures[j].status # "running"
    /\ pc' = IF pc = "exit_pool_interrupt"
             THEN "except_KeyboardInterrupt" ELSE "except_Exception"
    /\ UNCHANGED <<mainVarsButPc, histVars, parseVars, loaded, poolVars, extVars>>

\* What the two handlers of the try statement do to TEMP_FILE: nothing, they
\* print ("Progress has been saved to ...") and save nothing.
handler_file(f, incidents) == f

\* except KeyboardInterrupt: three prints, then main() returns.
ExceptKeyboardInterrupt ==
    /\ pc = "except_KeyboardInterrupt"
    /\ file' = handler_file(file, all_incidents)
    /\ pc' = "interrupted"
    /\ UNCHANGED <<total_incidents, BATCH_SIZE, NUM_WORKERS, backend,
                   all_incidents, existing_count, remaining, nbatches, i,
                   futures>>
    /\ UNCHANGED <<histVars, parseVars, loaded, poolVars, extVars>>

\* except Exception: three prints, then the exception is raised again.
ExceptException ==
    /\ pc = "except_Exception"
    /\ file' = handler_file(file, all_incidents)
    /\ pc' = "raised"
    /\ UNCHANGED <<total_incidents, BATCH_SIZE, NUM_WORKERS, backend,
                   all_incidents, existing_count, remaining, nbatches, i,
                   futures>>
    /\ UNCHANGED <<histVars, parseVars, loaded, poolVars, extVars>>

\* TEMP_FILE when it exists but json.load raises on it: an empty file, a
\* checkpoint cut short by a failed write, a JSON value that has no len().
UnreadableFiles ==
    {FileOf(<<>>), FileOf(partial_dump(<<1, 2>>, 1)), FileOf(<<"7">>)}

\* main() from the load to its end, against the backend that fails every
\* third job.
InitMain ==
    InitWith("third", Configs \ {EndToEnd}, StartFiles \cup UnreadableFiles, TRUE)

NextMain ==
    \/ LoadExisting
    \/ AskOverwrite
    \/ WhileCheck
    \/ ForStep
    \/ \E j \in 1..Len(futures) : JobRun(j)
    \/ \E j \in 1..Len(futures) : Collect(j)
    \/ Save
    \/ RoundEnd
    \/ Export
    \/ ExportOnly
    \/ Cleanup
    \/ Interrupt
    \/ InterruptSave
    \/ SubmitFails
    \/ ExitPool
    \/ ExceptKeyboardInterrupt
    \/ ExceptException

SpecMain == InitMain /\ [][NextMain]_vars

\* --------------------------------------- the round, step by step of the lock
\* The same round with the steps in which a thread holds progress_lock set
\* apart: a job announces its range under the lock, calls the backend and
\* parses without it, and reports under it; the main thread saves, and
\* prints the failure of a batch, under it.
\* Mutant: the lock is taken although another thread holds it.
can_acquire_always == TRUE

\* threading.Lock: acquired only when free.
can_acquire == progress_lock = Unlocked

\* with progress_lock: print("Generating ...")
JobAnnounce(j) ==
    /\ futures[j].status = "running"
    /\ can_acquire
    /\ progress_lock' = Worker(j)
    /\ futures' = [futures EXCEPT ![j].status = "announcing"]
    /\ UNCHANGED <<total_incidents, BATCH_SIZE, NUM_WORKERS, backend, file,
                   all_incidents, existing_count, pc, remaining, nbatches, i>>
    /\ UNCHANGED <<histVars, parseVars, loaded, poolVars>>
    /\ UNCHANGED <<output, writers, startFile, cleanup>>

\* The lock is released; the backend is called.
JobCall(j) ==
    /\ futures[j].status = "announcing"
    /\ progress_lock' = Unlocked
    /\ futures' = [futures EXCEPT ![j].status = "calling"]
    /\ UNCHANGED <<total_incidents, BATCH_SIZE, NUM_WORKERS, backend, file,
                   all_incidents, existing_count, pc, remaining, nbatches, i>>
    /\ UNCHANGED <<histVars, parseVars, loaded, poolVars>>
    /\ UNCHANGED <<output, writers, startFile, cleanup>>

\* The answer is parsed; with progress_lock: print("... successfully
\* generated"), or print("Error during generation") in the except branch.
JobReport(j) ==
    /\ futures[j].status = "calling"
    /\ can_acquire
    /\ progress_lock' = Worker(j)
    /\ \E resp \in BackendAnswers(futures[j]) :
        LET r == generate_incident_batch(resp)
            exact == r.ok /\ Len(r.incidents) = futures[j].size
        IN /\ futures' = [futures EXCEPT ![j].status = "reporting",
                                         ![j].ok = r.ok,
                                         ![j].incidents = r.incidents,
                                         ![j].err = r.err]
           /\ failedRequested' =
                 IF r.ok THEN failedRequested ELSE failedRequested + futures[j].size
           /\ inexact' = (inexact \/ (r.ok /\ ~exact))
           /\ faults' = IF backend = "any" /\ ~exact THEN faults + 1 ELSE faults
    /\ UNCHANGED <<total_incidents, BATCH_SIZE, NUM_WORKERS, backend, file,
                   all_incidents, existing_count, pc, remaining, nbatches, i>>
    /\ UNCHANGED <<rounds, roundStart, submitted, requested, okOffsets,
                   failedOffsets, okBatches, lastBatch, saveCalls, failedSaves,
                   lastSave>>
    /\ UNCHANGED <<parseVars, loaded, poolVars>>
    /\ UNCHANGED <<output, writers, startFile, cleanup>>

\* The lock is released; the function returns or raises: the future is done.
JobReturn(j) ==
    /\ futures[j].status = "reporting"
    /\ progress_lock' = Unlocked
    /\ futures' = [futures EXCEPT ![j].status = "finished"]
    /\ finished_futures' = Append(finished_futures, j)
    /\ UNCHANGED early_finished
    /\ UNCHANGED <<total_incidents, BATCH_SIZE, NUM_WORKERS, backend, file,
                   all_incidents, existing_count, pc, remaining, nbatches, i>>
    /\ UNCHANGED <<histVars, parseVars, loaded>>
    /\ UNCHANGED <<output, writers, startFile, cleanup>>

\* future.result() and the extend; a failed batch goes to the except branch.
CollectStep(j) == CollectTo(j, "except_batch")

\* except Exception: with progress_lock: print("Batch generation failed")
FailureLock ==
    /\ pc = "except_batch"
    /\ can_acquire
    /\ progress_lock' = MainThread
    /\ pc' = "except_print"
    /\ UNCHANGED <<mainVarsButPc, histVars, parseVars, loaded, poolVars>>
    /\ UNCHANGED <<output, writers, startFile, cleanup>>

FailureUnlock ==
    /\ pc = "except_print"
    /\ progress_lock' = Unlocked
    /\ pc' = "collect"
    /\ UNCHANGED <<mainVarsButPc, histVars, parseVars, loaded, poolVars>>
    /\ UNCHANGED <<output, writers, startFile, cleanup>>

\* with progress_lock: (the save follows)
SaveLock ==
    /\ pc = "save"
    /\ can_acquire
    /\ progress_lock' = MainThread
    /\ pc' = "save_open"
    /\ UNCHANGED <<mainVarsButPc, histVars, parseVars, loaded, poolVars>>
    /\ UNCHANGED <<output, writers, startFile, cleanup>>

\* save_incidents_to_temp: open(TEMP_FILE, 'w') truncates the file, or fails
\* (and the except branch prints).
SaveOpen ==
    /\ pc = "save_open"
    /\ \/ /\ file' = FileOf(<<>>)
          /\ writers' = writers + 1
          /\ pc' = "save_write"
          /\ UNCHANGED <<saveCalls, failedSaves, lastSave, faults>>
       \/ /\ faults < MaxFaults
          /\ file' = save_incidents_to_temp(file, all_incidents,
                                            [kind |-> "open_fails", cut |-> 0]).file
          /\ saveCalls' = saveCalls + 1
          /\ failedSaves' = failedSaves + 1
          /\ lastSave' = "failed"
          /\ faults' = faults + 1
          /\ pc' = "save_unlock"
          /\ UNCHANGED writers
    /\ UNCHANGED <<total_incidents, BATCH_SIZE, NUM_WORKERS, backend,
                   all_incidents, existing_count, remaining, nbatches, i,
                   futures>>
    /\ UNCHANGED <<rounds, roundStart, submitted, requested, failedRequested,
                   inexact, okOffsets, failedOffsets, okBatches, lastBatch>>
    /\ UNCHANGED <<parseVars, loaded, poolVars>>
    /\ UNCHANGED <<output, progress_lock, startFile, cleanup>>

\* The end of the with statement around json.dump: the file is closed.
close_file(w) == w - 1

\* json.dump writes the collection, or fails after some records; the file is
\* closed in both cases.
SaveWrite ==
    /\ pc = "save_write"
    /\ \E io \in {SaveOk} \cup (IF faults < MaxFaults
                                THEN SaveFailures(all_incidents) \ {[kind |-> "open_fails", cut |-> 0]}
                                ELSE {}) :
        /\ file' = save_incidents_to_temp(file, all_incidents, io).file
        /\ lastSave' = IF io.kind = "ok" THEN "ok" ELSE "failed"
        /\ failedSaves' = IF io.kind = "ok" THEN failedSaves ELSE failedSaves + 1
        /\ faults' = IF io.kind = "ok" THEN faults ELSE faults + 1
    /\ saveCalls' = saveCalls + 1
    /\ writers' = close_file(writers)
    /\ pc' = "save_unlock"
    /\ UNCHANGED <<total_incidents, BATCH_SIZE, NUM_WORKERS, backend,
                   all_incidents, existing_count, remaining, nbatches, i,
                   futures>>
    /\ UNCHANGED <<rounds, roundStart, submitted, requested, failedRequested,
                   inexact, okOffsets, failedOffsets, okBatches, lastBatch>>
    /\ UNCHANGED <<parseVars, loaded, poolVars>>
    /\ UNCHANGED <<output, progress_lock, startFile, cleanup>>

\* print("Progress: ...") and the end of with progress_lock.
SaveUnlock ==
    /\ pc = "save_unlock"
    /\ progress_lock' = Unlocked
    /\ pc' = "collect"
    /\ UNCHANGED <<mainVarsButPc, histVars, parseVars, loaded, poolVars>>
    /\ UNCHANGED <<output, writers, startFile, cleanup>>

InitLock == InitWith("third", Configs \ {EndToEnd}, StartFiles, FALSE)

NextLock ==
    \/ LoadExisting
    \/ AskOverwrite
    \/ WhileCheck
    \/ ForStep
    \/ \E j \in 1..Len(futures) : JobAnnounce(j)
    \/ \E j \in 1..Len(futures) : JobCall(j)
    \/ \E j \in 1..Len(futures) : JobReport(j)
    \/ \E j \in 1..Len(futures) : JobReturn(j)
    \/ \E j \in 1..Len(futures) : CollectStep(j)
    \/ FailureLock
    \/ FailureUnlock
    \/ SaveLock
    \/ SaveOpen
    \/ SaveWrite
    \/ SaveUnlock
    \/ RoundEnd

SpecLock == InitLock /\ [][NextLock]_vars

\* ------------------------------------------------- the parser on its own
\* The main program's variables while a pure function is exercised alone.
MainIdle ==
    /\ total_incidents = 1
    /\ BATCH_SIZE = 1
    /\ NUM_WORKERS = 1
    /\ backend = "any"
    /\ existing_count = 0
    /\ remaining = 0
    /\ nbatches = 0
    /\ i = 0
    /\ futures = <<>>
    /\ HistInit
    /\ ExtInit
    /\ startFile = NoFile

LanguageTag == <<"j", "s", "o", "n">>

\* Lines a backend's text is made of: fence lines with and without a tag, a
\* fence followed by payload or by prose, an indented fence, pieces of JSON.
LineSet ==
    { <<>>,
      Fence,
      Fence \o LanguageTag,
      Fence \o <<"[", "1", "]">>,
      Fence \o <<SP, "e", "n", "d">>,
      <<SP>> \o Fence,
      <<"[", "1", "]">>,
      <<"[">>,
      <<"1", ",">>,
      <<"1", "2">>,
      <<"]">>,
      <<"7">> }

LineSeqs == UNION {[1..n -> LineSet] : n \in 1..MaxLines}

\* JSON array texts: the lists over a few values, written on one line or on
\* several, as json.dump or a backend would.
SampleValues == {0, 7, 12}

SampleLists == UNION {[1..n -> SampleValues] : n \in 0..2}

Separators == {<<",">>, <<",", SP>>, <<",", LF, SP, SP>>}

RECURSIVE array_items(_, _)
array_items(xs, sep) ==
    IF xs = <<>> THEN <<>>
    ELSE IF Len(xs) = 1 THEN int_to_text(xs[1])
    ELSE int_to_text(Head(xs)) \o sep \o array_items(Tail(xs), sep)

ArrayTexts ==
    {json_dump(xs) : xs \in SampleLists}
    \cup {<<"[">> \o array_items(xs, sep) \o <<"]">> :
            xs \in SampleLists, sep \in Separators}

\* A wrapped in a leading fence line (with the tag, if any) and a trailing one.
Wrap(a, tag) == Fence \o tag \o <<LF>> \o a \o <<LF>> \o Fence

InitParse ==
    /\ \/ \E ls \in LineSeqs :
            /\ raw = join_lines(ls)
            /\ sample = [kind |-> "lines", array |-> <<>>]
       \/ \E a \in ArrayTexts, tag \in {<<>>, LanguageTag}, pad \in {<<>>, <<LF>>, <<SP>>} :
            /\ raw = pad \o Wrap(a, tag) \o pad
            /\ sample = [kind |-> "wrapped", array |-> a]
    /\ content = raw
    /\ lines = <<>>
    /\ parsed = NoResult
    /\ pc = "parse_strip"
    /\ file = NoFile
    /\ all_incidents = <<>>
    /\ loaded = <<>>
    /\ MainIdle

\* content = content.strip()
ParseStrip ==
    /\ pc = "parse_strip"
    /\ content' = strip(content)
    /\ pc' = "parse_fences"
    /\ UNCHANGED <<raw, lines, parsed, sample>>
    /\ UNCHANGED <<total_incidents, BATCH_SIZE, NUM_WORKERS, backend, file,
                   all_incidents, existing_count, remaining, nbatches, i,
                   futures, histVars, loaded, poolVars, extVars>>

\* if content.startswith(fence): split, drop the fence lines, join, strip
ParseFences ==
    /\ pc = "parse_fences"
    /\ lines' = IF startswith_fence(content)
                THEN drop_fence_lines(split_lines(content)) ELSE <<>>
    /\ content' = remove_code_fences(content)
    /\ pc' = "parse_json"
    /\ UNCHANGED <<raw, parsed, sample>>
    /\ UNCHANGED <<total_incidents, BATCH_SIZE, NUM_WORKERS, backend, file,
                   all_incidents, existing_count, remaining, nbatches, i,
                   futures, histVars, loaded, poolVars, extVars>>

\* incidents = json.loads(content), and the isinstance check
ParseJson ==
    /\ pc = "parse_json"
    /\ parsed' = decode_incidents(content)
    /\ pc' = "parse_done"
    /\ UNCHANGED <<raw, content, lines, sample>>
    /\ UNCHANGED <<total_incidents, BATCH_SIZE, NUM_WORKERS, backend, file,
                   all_incidents, existing_count, remaining, nbatches, i,
                   futures, histVars, loaded, poolVars, extVars>>

NextParse == ParseStrip \/ ParseFences \/ ParseJson

SpecParse == InitParse /\ [][NextParse]_vars

\* ----------------------------------------- the checkpoint store on its own
StoreValues == {0, 3, 10, 12, 105}

StoreLists == UNION {[1..n -> StoreValues] : n \in 0..MaxStoreLen}

InitStore ==
    /\ all_incidents \in StoreLists
    /\ file \in {NoFile, FileOf(json_dump(<<9, 9>>))}
    /\ loaded = <<>>
    /\ pc = "store_save"
    /\ ParseIdle
    /\ MainIdle

\* save_incidents_to_temp(X)
StoreSave ==
    /\ pc = "store_save"
    /\ \E io \in {SaveOk} \cup SaveFailures(all_incidents) :
        /\ file' = save_incidents_to_temp(file, all_incidents, io).file
        /\ lastSave' = IF io.kind = "ok" THEN "ok" ELSE "failed"
        /\ failedSaves' = IF io.kind = "ok" THEN failedSaves ELSE failedSaves + 1
    /\ saveCalls' = saveCalls + 1
    /\ pc' = "store_load"
    /\ UNCHANGED <<total_incidents, BATCH_SIZE, NUM_WORKERS, backend,
                   all_incidents, existing_count, remaining, nbatches, i,
                   futures>>
    /\ UNCHANGED <<rounds, roundStart, submitted, requested, failedRequested,
                   inexact, okOffsets, failedOffsets, okBatches, lastBatch, faults>>
    /\ UNCHANGED <<parseVars, loaded, poolVars, extVars>>

\* load_existing_incidents()
StoreLoad ==
    /\ pc = "store_load"
    /\ loaded' = load_existing_incidents(file)
    /\ pc' = "store_done"
    /\ UNCHANGED <<total_incidents, BATCH_SIZE, NUM_WORKERS, backend, file,
                   all_incidents, existing_count, remaining, nbatches, i,
                   futures, histVars, parseVars, poolVars, extVars>>

NextStore == StoreSave \/ StoreLoad

SpecStore == InitStore /\ [][NextStore]_vars

\* ================================================================= claims
CeilDiv(a, b) == (a + b - 1) \div b

\* The identifiers [offset+1, offset+size] a job is asked to use.
IdRange(job) == (job.offset + 1)..(job.offset + job.size)

\* Every job so far succeeded and returned exactly the count it was asked for.
NoJobFault == failedRequested = 0 /\ ~inexact

\* C1 (as stated): in every run that reaches Done from K records and a target
\* T > K, the requested counts of all dispatched jobs sum to exactly T - K.
\* (Stated here for the runs in which every successful job returned exactly
\* the count it was asked for, where it already fails: a failed job's count
\* is requested again.)
C1_Original ==
    (pc = "done" /\ ~inexact) => requested = total_incidents - existing_count

\* C1 (amended): in every run that reaches Done from K records and a target
\* T > K, and in which every successful job returned exactly the count it was
\* asked for, the requested counts of all dispatched jobs, less those of the
\* jobs that failed, sum to exactly T - K; so the sum over all jobs is T - K
\* when no job failed.
C1_Resumability ==
    (pc = "done" /\ ~inexact) =>
        /\ existing_count < total_incidents
        /\ requested - failedRequested = total_incidents - existing_count
        /\ (failedRequested = 0 => requested = total_incidents - existing_count)

C1_Witness ==
    /\ pc = "done"
    /\ ~inexact
    /\ existing_count > 0
    /\ failedRequested > 0
    /\ rounds >= 2
    /\ requested > total_incidents - existing_count

\* C2: in every round the a-th dispatched job (a = 1, 2, ...) has offset
\* L + (a-1)*B, with L the collection length at the round's start, whatever
\* has completed meanwhile; the offsets of the round are pairwise distinct,
\* the identifier ranges [offset+1, offset+size] pairwise disjoint, and no
\* range extends past the target.
C2_RoundNonOverlap ==
    \A a \in 1..Len(futures) :
        /\ futures[a].offset = roundStart + (a - 1) * BATCH_SIZE
        /\ futures[a].size >= 1
        /\ futures[a].offset + futures[a].size <= total_incidents
        /\ \A b \in 1..Len(futures) :
              a # b => /\ futures[a].offset # futures[b].offset
                       /\ IdRange(futures[a]) \cap IdRange(futures[b]) = {}

C2_Witness ==
    /\ pc = "for"
    /\ Len(futures) >= 2
    /\ futures[1].status = "finished"
    /\ BATCH_SIZE >= 2
    /\ roundStart > 0
    /\ rounds >= 2

\* C3: with the backend that fails every third job and otherwise returns
\* exactly the requested records, a run that enters the generation loop
\* eventually reaches Done with at least T records, and it never starts more
\* than 2 * (T - K) rounds.
C3_PartialFailureProgress ==
    /\ (pc = "while") ~> (pc = "done" /\ Len(all_incidents) >= total_incidents)
    /\ [](rounds <= 2 * Max(0, total_incidents - existing_count))

C3_Witness ==
    /\ backend = "third"
    /\ pc = "done"
    /\ Len(all_incidents) >= total_incidents
    /\ failedRequested > 0
    /\ rounds >= 3

\* C4: no job dispatched in a later round is given the offset of a batch that
\* completed successfully in an earlier round.  (Stated for the runs in which
\* every successful batch held exactly the requested records, so that only
\* failed jobs are behind a reuse.)
C4_NoOffsetReuse ==
    ~inexact => \A j \in 1..Len(futures) : futures[j].offset \notin okOffsets

\* C5 (as stated): when every job succeeds and returns exactly its requested
\* count, a run from K records to target T executes exactly
\* ceil((T-K)/(W*B)) rounds, ends with exactly T records, and the checkpoint
\* holds all T records.
C5_Original ==
    (pc = "done" /\ NoJobFault) =>
        /\ rounds = CeilDiv(total_incidents - existing_count, NUM_WORKERS * BATCH_SIZE)
        /\ Len(all_incidents) = total_incidents
        /\ load_existing_incidents(file) = all_incidents

\* The sizes of the round's jobs, in submission order.
RoundSizes == [j \in 1..Len(futures) |-> futures[j].size]

\* The run of the end-to-end scenario: K = 0, T = 10, B = 4, W = 2.
InEndToEnd ==
    /\ total_incidents = EndToEnd.T
    /\ BATCH_SIZE = EndToEnd.B
    /\ NUM_WORKERS = EndToEnd.W
    /\ existing_count = 0

\* C5 (amended): when every job succeeds and returns exactly its requested
\* count, a run from K records to target T executes exactly
\* ceil((T-K)/(W*B)) rounds (and never more on the way), ends with exactly T
\* records, and, when the last checkpoint save succeeded, the checkpoint
\* holds all T records in order.  For K=0, T=10, B=4, W=2 these are exactly 2
\* rounds with job sizes (4,4) then (2).
C5_EndToEnd ==
    /\ NoJobFault =>
          rounds <= CeilDiv(Max(0, total_incidents - existing_count),
                            NUM_WORKERS * BATCH_SIZE)
    /\ (pc = "done" /\ NoJobFault) =>
          /\ rounds = CeilDiv(total_incidents - existing_count, NUM_WORKERS * BATCH_SIZE)
          /\ Len(all_incidents) = total_incidents
          /\ lastSave # "none"
          /\ lastSave = "ok" =>
                /\ file = FileOf(json_dump(all_incidents))
                /\ load_existing_incidents(file) = all_incidents
    /\ (InEndToEnd /\ NoJobFault /\ pc \in {"collect", "save", "while", "done"}) =>
          /\ rounds = 1 => RoundSizes = <<4, 4>>
          /\ rounds = 2 => RoundSizes = <<2>>
          /\ pc = "done" => rounds = 2 /\ Len(all_incidents) = 10

C5_Witness ==
    /\ InEndToEnd
    /\ NoJobFault
    /\ pc = "done"
    /\ rounds = 2
    /\ lastSave = "ok"
    /\ Len(load_existing_incidents(file)) = 10

\* C6: for every record collection X, a successful save(X) followed by load()
\* returns X: the same records in the same order.
C6_CheckpointRoundTrip ==
    (pc = "store_done" /\ lastSave = "ok") => loaded = all_incidents

C6_Witness ==
    /\ pc = "store_done"
    /\ lastSave = "ok"
    /\ Len(all_incidents) >= 3
    /\ all_incidents[1] > all_incidents[2]
    /\ all_incidents[2] = all_incidents[3]
    /\ all_incidents[1] >= 100
    /\ loaded = all_incidents

\* How often line l occurs in the lines ls.
CountLine(l, ls) == Cardinality({k \in 1..Len(ls) : ls[k] = l})

\* a is b with some elements left out.
RECURSIVE IsSubsequence(_, _)
IsSubsequence(a, b) ==
    IF a = <<>> THEN TRUE
    ELSE IF b = <<>> THEN FALSE
    ELSE IF Head(a) = Head(b) THEN IsSubsequence(Tail(a), Tail(b))
    ELSE IsSubsequence(a, Tail(b))

\* A line that consists solely of a fence marker: backticks, and possibly a
\* language tag after them.
FenceOnly(l) ==
    /\ startswith_fence(l)
    /\ \A k \in 4..Len(l) : l[k] \in Range(LanguageTag) \cup {TICK}

\* The lines of the payload, and those the parser hands on to the decoder.
PayloadLines == split_lines(strip(raw))

KeptLines == IF startswith_fence(strip(raw)) THEN lines ELSE PayloadLines

\* A JSON array text wrapped in a leading fence line (with or without a
\* language tag) and a trailing one parses as the array text alone does.
WrappedParsesAsBare ==
    (pc = "parse_done" /\ sample.kind = "wrapped") =>
        /\ parsed = generate_incident_batch(Answer(sample.array))
        /\ parsed.ok
        /\ parsed.incidents = json_loads(sample.array).value

\* C7 (as stated): wrapped input parses as the bare array; only lines that
\* consist solely of fence markers are removed, and only when the payload
\* begins with a fence marker.
C7_Original ==
    /\ WrappedParsesAsBare
    /\ pc \in {"parse_json", "parse_done"} =>
          \A l \in Range(PayloadLines) :
              CountLine(l, KeptLines) < CountLine(l, PayloadLines) =>
                  FenceOnly(l) /\ startswith_fence(strip(raw))

\* C7 (amended): wrapped input parses as the bare array; when the payload
\* begins with a fence marker, exactly the lines that begin with a fence
\* marker are removed, whatever follows the marker on the line, and the other
\* lines are kept in order; when it does not, no line is removed.
C7_FenceStripping ==
    /\ WrappedParsesAsBare
    /\ pc \in {"parse_json", "parse_done"} =>
          IF startswith_fence(strip(raw))
          THEN /\ \A l \in Range(PayloadLines) :
                     CountLine(l, lines) =
                        IF startswith_fence(l) THEN 0 ELSE CountLine(l, PayloadLines)
               /\ IsSubsequence(lines, PayloadLines)
               /\ content = strip(join_lines(lines))
          ELSE /\ lines = <<>>
               /\ content = strip(raw)

C7_Witness ==
    /\ pc = "parse_done"
    /\ sample.kind = "wrapped"
    /\ SubSeq(strip(raw), 4, 7) = LanguageTag
    /\ parsed.ok
    /\ parsed.incidents = <<12, 7>>
    /\ Len(lines) >= 2

\* A finished future that holds an exception is taken by the collection loop.
TakesFailure(j) ==
    /\ pc = "collect"
    /\ Len(futures') = Len(futures)
    /\ futures[j].status = "finished"
    /\ ~futures[j].ok
    /\ futures'[j].status = "yielded"

\* C8: a backend error or a parse error (invalid JSON, or a top-level value
\* that is no array) in one job adds no record, leaves the collection and the
\* checkpoint as they were, and neither ends the collection of the round's
\* other jobs nor aborts the run.
C8_JobFailureIsolation ==
    /\ [][\A j \in 1..Len(futures) :
            TakesFailure(j) =>
                /\ futures[j].err \in {"BackendError", "JSONDecodeError", "ValueError"}
                /\ futures[j].incidents = <<>>
                /\ all_incidents' = all_incidents
                /\ file' = file
                /\ pc' = "collect"
                /\ \A m \in 1..Len(futures) : m # j => futures'[m] = futures[m]]_vars
    /\ [][(\E j \in 1..Len(futures) : futures[j].status = "running")
            /\ Len(futures') = Len(futures)
            /\ (\E j \in 1..Len(futures) : futures'[j].status = "finished" /\ ~futures'[j].ok
                                             /\ futures[j].status = "running")
            => all_incidents' = all_incidents /\ file' = file /\ pc' = pc]_vars
    /\ [](pc # "aborted")

\* A job failed in an earlier round, and in this round the loop took a job
\* that returned no array and then appended the batch of another job.
C8_Witness ==
    /\ rounds >= 2
    /\ pc = "save"
    /\ \E j \in 1..Len(futures) :
          /\ futures[j].status = "yielded"
          /\ futures[j].err = "ValueError"
          /\ failedRequested > futures[j].size

\* b is the end of a.
IsSuffix(b, a) ==
    Len(b) <= Len(a) /\ SubSeq(a, Len(a) - Len(b) + 1, Len(a)) = b

\* C9: every successfully completed batch triggers exactly one checkpoint
\* save, of the whole collection: when that save succeeds, the checkpoint
\* file equals the collection, the batch's records at its end, before the
\* next completion is processed.
C9_CheckpointAfterBatch ==
    /\ [](saveCalls = IF pc = "save" THEN okBatches - 1 ELSE okBatches)
    /\ []((pc # "save" /\ lastSave = "ok") =>
            /\ file = FileOf(json_dump(all_incidents))
            /\ load_existing_incidents(file) = all_incidents
            /\ IsSuffix(lastBatch, all_incidents))
    /\ [][(pc = "collect" /\ pc' = "save") =>
            /\ Len(futures') = Len(futures)
            /\ \E j \in 1..Len(futures) :
                  /\ futures[j].status = "finished" /\ futures[j].ok
                  /\ futures'[j].status = "yielded"
                  /\ all_incidents' = all_incidents \o futures[j].incidents]_vars
    /\ [][(pc = "save" /\ pc' # "save") =>
            pc' = "collect" /\ saveCalls' = saveCalls + 1]_vars
    /\ [][saveCalls' # saveCalls =>
            /\ pc = "save"
            /\ saveCalls' = saveCalls + 1
            /\ all_incidents' = all_incidents]_vars

C9_Witness ==
    /\ pc = "collect"
    /\ lastSave = "ok"
    /\ okBatches >= 2
    /\ saveCalls = okBatches
    /\ Len(lastBatch) >= 2
    /\ load_existing_incidents(file) = all_incidents
    /\ \E j \in 1..Len(futures) : futures[j].status = "finished"

\* C10: a checkpoint save that fails does not abort the run: the collection
\* is unchanged and still ends with the batch just appended, the collection
\* loop goes on, and the next save that succeeds writes the complete
\* collection.
C10_FailedSaveDoesNotAbort ==
    /\ [][(saveCalls' # saveCalls /\ lastSave' = "failed") =>
            /\ failedSaves' = failedSaves + 1
            /\ all_incidents' = all_incidents
            /\ IsSuffix(lastBatch, all_incidents')
            /\ futures' = futures
            /\ pc' = "collect"]_vars
    /\ [][(saveCalls' # saveCalls /\ failedSaves > 0 /\ lastSave' = "ok") =>
            /\ file' = FileOf(json_dump(all_incidents'))
            /\ load_existing_incidents(file') = all_incidents
            /\ all_incidents' = all_incidents]_vars
    /\ [](pc # "aborted")

C10_Witness ==
    /\ failedSaves >= 1
    /\ lastSave = "ok"
    /\ pc = "collect"
    /\ okBatches >= 2
    /\ load_existing_incidents(file) = all_incidents
    /\ Len(all_incidents) >= 2

\* C11: KeyboardInterrupt at any point of the generation loop (also between
\* the append of a batch and its save) ends the run with one final save of
\* the collection: after an interrupted run the checkpoint holds every record
\* the collection held.
C11_InterruptSavesCollection ==
    pc = "interrupted" => load_existing_incidents(file) = all_incidents

\* C12: a failure of the generation or export phase that is no job's, no
\* checkpoint I/O error and no interruption aborts the run, and one more
\* save of the collection is attempted before it is raised to the caller.
C12_FinalSaveOnFailure ==
    (pc = "raised" /\ rounds > 0) => saveCalls = okBatches + 1

\* C13 (as stated): after a successful export of the final collection the
\* checkpoint file is deleted; it is never deleted when the export failed or
\* the run was aborted.  (Stated for the export that ends a generation run.)
C13_Original ==
    /\ [](pc = "finished" => ~file.exists)
    /\ [][(file.exists /\ ~file'.exists) => pc \in {"cleanup", "ask"}]_vars

\* C13 (amended): after a successful export at the end of a generation run
\* the user is asked, and the checkpoint file is deleted when the answer is
\* "y" and left as it is otherwise; after the export of a collection that was
\* complete at start (no generation) it is left as it is; it is never deleted
\* when the export failed or the run was aborted.  (The only other deletion
\* is the start from scratch the user asks for before the generation.)
C13_CheckpointLifecycle ==
    /\ [](pc = "finished" =>
            /\ output = [exists |-> TRUE, rows |-> all_incidents]
            /\ cleanup \in {"y", "n"}
            /\ cleanup = "y" => ~file.exists)
    /\ [](pc # "finished" => cleanup = "")
    /\ [][(pc = "cleanup" /\ pc' = "finished") =>
            file' = IF cleanup' = "y" THEN NoFile ELSE file]_vars
    /\ [][pc = "export_only" => file' = file]_vars
    /\ [][(file.exists /\ ~file'.exists) =>
            \/ pc = "cleanup" /\ pc' = "finished" /\ cleanup' = "y"
                 /\ output = [exists |-> TRUE, rows |-> all_incidents]
            \/ pc = "ask" /\ pc' = "while"]_vars

C13_Witness ==
    /\ pc = "finished"
    /\ cleanup = "y"
    /\ ~file.exists
    /\ okBatches >= 2
    /\ lastSave = "ok"
    /\ output.rows = all_incidents
    /\ Len(all_incidents) >= total_incidents

\* TEMP_FILE is absent, or present and json.load (or len) raises on it.
Unloadable(f) == ~f.exists \/ json_loads(f.text).kind # "list"

\* C14: when the checkpoint file is absent, or present but not readable as a
\* collection, the load returns the empty collection and the run starts with
\* current = 0; an unreadable file stays as it is until a save, and the first
\* save that succeeds replaces it by the whole collection.
C14_CheckpointLoad ==
    /\ [][(pc = "load" /\ Unloadable(file)) =>
            /\ all_incidents' = <<>>
            /\ existing_count' = 0
            /\ file' = file
            /\ pc' = "while"]_vars
    /\ []((Unloadable(startFile) /\ rounds = 1) => roundStart = 0 /\ existing_count = 0)
    /\ []((Unloadable(startFile) /\ saveCalls = 0 /\ cleanup = "") => file = startFile)
    /\ [][(Unloadable(startFile) /\ saveCalls' # saveCalls /\ lastSave' = "ok") =>
            /\ file' = FileOf(json_dump(all_incidents))
            /\ load_existing_incidents(file') = all_incidents]_vars

C14_Witness ==
    /\ startFile = FileOf(partial_dump(<<1, 2>>, 1))
    /\ failedSaves = 1
    /\ saveCalls = 2
    /\ lastSave = "ok"
    /\ pc = "collect"
    /\ file = FileOf(json_dump(all_incidents))
    /\ Len(all_incidents) >= 2

RECURSIVE SumSeq(_)
SumSeq(q) == IF q = <<>> THEN 0 ELSE Head(q) + SumSeq(Tail(q))

\* The jobs of the round are all dispatched.
Dispatched == rounds >= 1 /\ pc \in {"collect", "save", "while", "done"}

\* C15: in every round with remaining = T - current > 0, exactly
\* min(W, ceil(remaining / B)) jobs are dispatched; every job has a size
\* between 1 and B, every job but possibly the last has size exactly B, and
\* the sizes of the round sum to min(remaining, W * B).
C15_RoundShape ==
    /\ rounds >= 1 =>
          /\ remaining > 0
          /\ remaining = total_incidents - roundStart
          /\ Len(futures) <= Min(NUM_WORKERS, CeilDiv(remaining, BATCH_SIZE))
          /\ \A j \in 1..Len(futures) :
                /\ futures[j].size \in 1..BATCH_SIZE
                /\ (j < Len(futures) \/ pc = "for") =>
                      (j < Min(NUM_WORKERS, CeilDiv(remaining, BATCH_SIZE))
                          => futures[j].size = BATCH_SIZE)
    /\ Dispatched =>
          /\ Len(futures) = Min(NUM_WORKERS, CeilDiv(remaining, BATCH_SIZE))
          /\ \A j \in 1..(Len(futures) - 1) : futures[j].size = BATCH_SIZE
          /\ SumSeq(RoundSizes) = Min(remaining, NUM_WORKERS * BATCH_SIZE)

C15_Witness ==
    /\ pc = "collect"
    /\ rounds >= 2
    /\ NUM_WORKERS = 2
    /\ BATCH_SIZE = 2
    /\ RoundSizes = <<2, 1>>
    /\ remaining = 3

\* The shape every round of a run has when nothing is ever collected: the
\* a-th job has offset K + (a-1)*B and the size that is missing there.
SameRound ==
    \A a \in 1..Len(futures) :
        /\ futures[a].offset = existing_count + (a - 1) * BATCH_SIZE
        /\ futures[a].size = Min(BATCH_SIZE, total_incidents - futures[a].offset)

\* C16: if every job of every round fails, current never advances, each
\* round is dispatched with the same offsets and sizes as the one before,
\* and the run never reaches Done or Aborted: as long as the model lets a
\* round start, another one does start.
C16_TotalFailureLivelock ==
    /\ [](backend = "down" =>
            /\ pc \notin {"done", "aborted"}
            /\ Len(all_incidents) = existing_count
            /\ okBatches = 0 /\ saveCalls = 0
            /\ rounds >= 1 =>
                  /\ roundStart = existing_count
                  /\ remaining = total_incidents - existing_count
                  /\ SameRound
                  /\ pc # "for" =>
                        Len(futures) = Min(NUM_WORKERS, CeilDiv(remaining, BATCH_SIZE)))
    /\ (backend = "down" /\ pc = "while") ~> (pc = "while" /\ rounds = RoundLimit)

C16_Witness ==
    /\ backend = "down"
    /\ rounds = MaxFailedRounds
    /\ pc = "while"
    /\ Len(futures) = 2
    /\ futures[2].size < BATCH_SIZE
    /\ \E j \in 1..2 : futures[j].err = "JSONDecodeError"

\* C17: the record budget of a failed batch is requested again in a later
\* round, so that the run ends with no fewer records than the target; and
\* the offset that was given to a failed batch is never given to a job of a
\* later round.
C17_FailedBatchBudget ==
    /\ pc = "done" => Len(all_incidents) >= total_incidents
    /\ \A j \in 1..Len(futures) : futures[j].offset \notin failedOffsets

\* The jobs in flight: submitted and not finished.
InFlight == {j \in 1..Len(futures) : futures[j].status = "running"}

\* C20: the collection step of a round ends only after every job of the
\* round has completed or failed: when the loop condition and remaining are
\* evaluated to start a round no job is in flight, the collection does not
\* change while the round is dispatched, and never more than W jobs are in
\* flight.
C20_RoundBarrier ==
    /\ [](pc \in {"while", "done"} => InFlight = {})
    /\ [](Cardinality(InFlight) <= NUM_WORKERS)
    /\ [](pc = "for" => Len(all_incidents) = roundStart)
    /\ [][(pc = "collect" /\ pc' = "while") =>
            \A j \in 1..Len(futures) : futures[j].status = "yielded"]_vars
    /\ [][rounds' # rounds => InFlight = {} /\ Len(futures') = 0]_vars

C20_Witness ==
    /\ pc = "while"
    /\ rounds >= 2
    /\ NUM_WORKERS = 2
    /\ Len(futures) = 2
    /\ \E j \in 1..2 : ~futures[j].ok
    /\ Len(all_incidents) < total_incidents

\* The collection loop takes future j: as_completed yields it.
Yields(j) ==
    /\ Len(futures') = Len(futures)
    /\ futures[j].status = "finished"
    /\ futures'[j].status = "yielded"

\* Every change of the collection after the load is the append, at its end,
\* of the whole batch of the future just yielded, in the order the parser
\* returned its records.
AppendsWholeBatches ==
    /\ [][pc = "load" => all_incidents' = load_existing_incidents(file)]_vars
    /\ [][(all_incidents' # all_incidents /\ pc \notin {"load", "ask"}) =>
            /\ pc = "collect" /\ pc' = "save"
            /\ \E j \in 1..Len(futures) :
                  /\ Yields(j) /\ futures[j].ok
                  /\ all_incidents' = all_incidents \o futures[j].incidents
                  /\ lastBatch' = futures[j].incidents]_vars
    /\ [][\A j \in 1..Len(futures) :
            (futures[j].status = "running" /\ Len(futures') = Len(futures)
             /\ futures'[j].status = "finished") =>
                finished_futures' = Append(finished_futures, j)]_vars
    /\ [][\A j \in 1..Len(futures) :
            (futures[j].status = "finished" /\ Len(futures') = Len(futures)) =>
                futures'[j].incidents = futures[j].incidents]_vars

\* C18 (as stated): the final collection is the loaded records followed by
\* the successful batches, whole and in the backend's order, concatenated in
\* the order in which their jobs completed: the loop always takes the job
\* that completed first among those not yet taken.
C18_Original ==
    /\ AppendsWholeBatches
    /\ [][\A j \in 1..Len(futures) :
            Yields(j) => j = Head(finished_futures)]_vars

\* C18 (amended): the final collection is the loaded records followed by the
\* successful batches, whole and in the backend's order, concatenated in the
\* order in which the collection loop takes them: first the jobs that had
\* completed before the collection of their round began, in no fixed order
\* among themselves, then the others in the order in which they completed
\* (neither submission order nor offset order).
C18_CompletionOrder ==
    /\ AppendsWholeBatches
    /\ [](early_finished \subseteq Range(finished_futures))
    /\ [](Range(finished_futures) =
            {j \in 1..Len(futures) : futures[j].status = "finished"})
    /\ [][\A j \in 1..Len(futures) :
            Yields(j) =>
                \/ j \in early_finished
                \/ early_finished = {} /\ j = Head(finished_futures)]_vars

\* The batch of the second job of a round was appended before the batch of
\* the first job.
C18_Witness ==
    /\ pc = "collect"
    /\ Len(futures) = 2
    /\ futures[1].status = "yielded" /\ futures[1].ok
    /\ futures[2].status = "yielded" /\ futures[2].ok
    /\ Len(lastBatch) = 2
    /\ lastBatch = futures[1].incidents
    /\ all_incidents = <<1>> \o futures[2].incidents \o futures[1].incidents

\* The main thread is between the append of a batch and the end of its save.
InSave == pc \in {"save", "save_open", "save_write", "save_unlock"}

\* C19: for every interleaving of the round's jobs, the append of a batch
\* and its checkpoint save are not interleaved with the append or the save
\* of another batch, and no two checkpoint writes overlap: the file is
\* written by the main thread only, under progress_lock, by one writer at a
\* time, and the next batch is taken only when the save is over.
C19_SerializedWrites ==
    /\ [](writers <= 1)
    /\ [](writers = 1 <=> pc = "save_write")
    /\ [](pc \in {"save_open", "save_write", "save_unlock"} =>
            progress_lock = MainThread)
    /\ [][InSave =>
            /\ all_incidents' = all_incidents
            /\ Len(futures') = Len(futures)
            /\ \A j \in 1..Len(futures) :
                  futures'[j].status = "yielded" => futures[j].status = "yielded"]_vars
    /\ [][file' # file =>
            \/ pc \in {"save_open", "save_write"} /\ progress_lock = MainThread
            \/ pc = "ask"]_vars
    /\ [][(all_incidents' # all_incidents /\ pc = "collect") =>
            /\ saveCalls = okBatches
            /\ writers = 0
            /\ pc' = "save"]_vars

\* The checkpoint is being written while another job of the round still
\* calls the backend, or has finished and waits to be taken.
C19_Witness ==
    /\ pc = "save_write"
    /\ writers = 1
    /\ okBatches >= 1
    /\ Len(futures) = 2
    /\ \E j \in 1..2 : futures[j].status \in {"calling", "finished"}

\* Where main() stands once an interruption or a failure has ended the run:
\* the exit of the with block, the handlers, and after them.
Ending ==
    pc \in {"exit_pool_interrupt", "exit_pool_error", "except_KeyboardInterrupt",
            "except_Exception", "interrupted", "raised"}

\* C21 (as stated): the orchestrator leaves the round loop exactly when
\* current >= target at a round boundary; the export sink is invoked only
\* after that (or on the already-satisfied path), with no job in flight, and
\* a run that was interrupted or aborted has not invoked it (so it has
\* written no output).
C21_Original ==
    /\ [][(pc' = "done" /\ pc # "done") =>
            pc = "while" /\ Len(all_incidents) >= total_incidents]_vars
    /\ [][output' # output => pc \in {"done", "export_only"} /\ InFlight = {}]_vars
    /\ [](pc \in {"interrupted", "raised"} => ~output.exists)

\* C21 (amended): the orchestrator leaves the round loop for Done exactly
\* when current >= target at a round boundary (the while test; never in the
\* middle of a round); the export sink is invoked only after that, or on the
\* already-satisfied path, with no job in flight, and it is handed the
\* collection as it is; it is never invoked once the run was interrupted or
\* has aborted.  A run that was interrupted in the loop has not invoked it;
\* a run that is interrupted after the export (at the cleanup prompt), and a
\* run that aborts because the export failed, have.
C21_DoneAndExport ==
    /\ [][(pc' = "done" /\ pc # "done") =>
            /\ pc = "while"
            /\ Len(all_incidents) >= total_incidents
            /\ all_incidents' = all_incidents]_vars
    /\ [][(pc = "while" /\ pc' \notin {"while", "exit_pool_interrupt"}) =>
            (pc' = "done" <=> Len(all_incidents) >= total_incidents)]_vars
    /\ [](pc \in {"done", "export_only"} => InFlight = {})
    /\ [](pc = "export_only" => rounds = 0 /\ existing_count >= total_incidents)
    /\ [][output' # output =>
            /\ pc \in {"done", "export_only"}
            /\ InFlight = {}
            /\ output' = [exists |-> TRUE, rows |-> all_incidents]]_vars
    /\ [][(pc' = "cleanup" /\ pc # "cleanup") =>
            pc = "done" /\ output' = [exists |-> TRUE, rows |-> all_incidents]]_vars
    /\ []((InPool \/ pc \in {"exit_pool_interrupt", "exit_pool_error", "load", "ask"})
            => output = NoOutput)
    /\ [][Ending => (output' = output /\ Ending')]_vars
    /\ []((pc \in {"interrupted", "raised"} /\ output.exists) =>
            /\ output.rows = all_incidents
            /\ Len(all_incidents) >= total_incidents
            /\ InFlight = {})

\* The run was interrupted at the cleanup prompt, after the export of a
\* collection that took several rounds.
C21_Witness ==
    /\ pc = "interrupted"
    /\ output = [exists |-> TRUE, rows |-> all_incidents]
    /\ rounds >= 2
    /\ failedRequested > 0
    /\ Len(all_incidents) >= total_incidents

\* The checkpoint found at process start already holds the target.
AlreadySatisfied == Len(load_existing_incidents(startFile)) >= total_incidents

\* C22: when the loaded checkpoint holds K >= T records, no batch job is
\* dispatched unless the user chooses to start from scratch; if the user
\* declines, the K loaded records are exported unchanged (not truncated to T)
\* and the checkpoint file is left as it was; if the user accepts, the
\* collection is emptied, the checkpoint file is deleted, and the generation
\* proceeds as from K = 0.
C22_TargetAlreadySatisfied ==
    /\ [][pc = "load" =>
            (pc' = "ask" <=> Len(load_existing_incidents(file)) >= total_incidents)]_vars
    /\ []((pc \in {"ask", "export_only", "returned"} \/ (pc = "raised" /\ rounds = 0)) =>
            /\ AlreadySatisfied
            /\ submitted = 0 /\ futures = <<>> /\ rounds = 0
            /\ all_incidents = load_existing_incidents(startFile)
            /\ existing_count = Len(all_incidents)
            /\ file = startFile
            /\ saveCalls = 0)
    /\ [](pc = "returned" =>
            output = [exists |-> TRUE, rows |-> load_existing_incidents(startFile)])
    /\ [][pc = "ask" =>
            \/ /\ pc' = "export_only"
               /\ all_incidents' = all_incidents /\ file' = file
            \/ /\ pc' = "while"
               /\ all_incidents' = <<>> /\ existing_count' = 0 /\ file' = NoFile
               /\ submitted' = 0]_vars
    /\ [][pc = "export_only" =>
            /\ all_incidents' = all_incidents /\ file' = file /\ submitted' = 0
            /\ pc' \in {"returned", "raised"}
            /\ pc' = "returned" => output' = [exists |-> TRUE, rows |-> all_incidents]]_vars
    /\ []((AlreadySatisfied /\ rounds >= 1) =>
            /\ existing_count = 0
            /\ rounds = 1 => (roundStart = 0 /\ remaining = total_incidents)
            /\ (saveCalls = 0 /\ cleanup = "") => file = NoFile)
    /\ []((AlreadySatisfied /\ rounds = 1 /\ Len(futures) >= 1) => futures[1].offset = 0)

\* The user declined: the two loaded records were exported for a target of
\* one, and the checkpoint file is the one found at start.
C22_Witness ==
    /\ pc = "returned"
    /\ total_incidents = 1
    /\ Len(all_incidents) = 2
    /\ output = [exists |-> TRUE, rows |-> all_incidents]
    /\ file = startFile
    /\ file.exists
    /\ submitted = 0

\* a is the beginning of b.
IsPrefix(a, b) == Len(a) <= Len(b) /\ SubSeq(b, 1, Len(a)) = a

\* The generation: from the first while test on.
InGeneration == pc \in {"while", "for", "collect", "save", "done"}

\* C23: over any sequence of dispatches, completions, failures and saves,
\* the in-memory collection only grows by appending at its end; its length
\* never decreases during the generation, and the records loaded from the
\* checkpoint (here the records 1..K of the checkpoint found at start) stay
\* an unchanged prefix of it.
C23_AppendOnly ==
    /\ [][InGeneration =>
            /\ IsPrefix(all_incidents, all_incidents')
            /\ Len(all_incidents') >= Len(all_incidents)
            /\ existing_count' = existing_count]_vars
    /\ [][(InGeneration /\ all_incidents' # all_incidents) =>
            /\ pc = "collect"
            /\ \E j \in 1..Len(futures) :
                  /\ futures[j].status = "finished" /\ futures[j].ok
                  /\ all_incidents' = all_incidents \o futures[j].incidents]_vars
    /\ [](InGeneration =>
            /\ Len(all_incidents) >= existing_count
            /\ Len(all_incidents) >= roundStart
            /\ SubSeq(all_incidents, 1, existing_count) = Numbered(0, existing_count))

\* Two loaded records, then batches (one of them of another length than
\* asked) appended after them, with a failed save in between.
C23_Witness ==
    /\ pc = "collect"
    /\ existing_count = 2
    /\ okBatches >= 2
    /\ inexact
    /\ failedSaves >= 1
    /\ Len(all_incidents) > existing_count
    /\ SubSeq(all_incidents, 1, 2) = <<1, 2>>

\* The records the checkpoint file holds: those of the JSON array in it, none
\* when there is no file or no array in it.
CheckpointContent ==
    IF file.exists
    THEN LET v == json_loads(file.text) IN IF v.kind = "list" THEN v.value ELSE <<>>
    ELSE <<>>

\* C24: in every state of the generation loop in which the last save attempt
\* (if any) succeeded, the checkpoint content is a prefix of the in-memory
\* collection, and it differs from the collection only in the window between
\* the append of a batch and the completion of its save (where the
\* collection is the checkpoint content followed by that batch).
C24_CheckpointNeverAhead ==
    (InPool /\ lastSave # "failed") =>
        LET held == CheckpointContent IN
        /\ IsPrefix(held, all_incidents)
        /\ file.exists => file.text = json_dump(held)
        /\ held # all_incidents =>
              /\ pc = "save"
              /\ all_incidents = held \o lastBatch
        /\ pc # "save" => held = all_incidents
        /\ (lastSave = "none" /\ pc # "save") => Len(all_incidents) = existing_count

\* In the window: a batch was appended to a collection that a save, after an
\* earlier failed one, had written whole.
C24_Witness ==
    /\ pc = "save"
    /\ lastSave = "ok"
    /\ failedSaves >= 1
    /\ okBatches >= 3
    /\ CheckpointContent # <<>>
    /\ Len(CheckpointContent) < Len(all_incidents)
    /\ all_incidents = CheckpointContent \o lastBatch

\* The round's batches that the collection loop has appended.
Appended == {j \in 1..Len(futures) : futures[j].status = "yielded" /\ futures[j].ok}

\* No successful job of the round returned more records than it was asked.
NoOverReturn ==
    \A j \in 1..Len(futures) :
        futures[j].ok => Len(futures[j].incidents) <= futures[j].size

RECURSIVE SumOver(_, _)
SumOver(S, f) ==
    IF S = {} THEN 0
    ELSE LET x == CHOOSE y \in S : TRUE IN f[x] + SumOver(S \ {x}, f)

\* C25: with a backend that may return any number of records per successful
\* job (fewer, as many or more than asked, or an empty array), the collection
\* at Done holds at least T records and is never truncated; it holds exactly
\* T records if no successful job (of the last round, and so of the run)
\* returned more records than it was asked for; and what a job leaves
\* missing is asked for again: every round that starts asks for all that is
\* missing of the target or for W full batches.
C25_CountAtDone ==
    /\ [](pc = "done" => Len(all_incidents) >= total_incidents)
    /\ []((pc = "done" /\ rounds >= 1 /\ NoOverReturn) =>
            Len(all_incidents) = total_incidents)
    /\ []((rounds >= 1 /\ pc \in {"collect", "save", "while", "done"}) =>
            /\ Len(all_incidents) =
                  roundStart + SumOver(Appended, [j \in 1..Len(futures) |->
                                                     Len(futures[j].incidents)])
            /\ NoOverReturn =>
                  /\ Len(all_incidents) <= roundStart + SumSeq(RoundSizes)
                  /\ Len(all_incidents) <= total_incidents)
    /\ [][(pc \in {"while", "done"}) => all_incidents' = all_incidents]_vars
    /\ [][(pc = "while" /\ Len(all_incidents) < total_incidents /\ pc' # "while") =>
            /\ pc' = "for"
            /\ remaining' = total_incidents - Len(all_incidents)]_vars
    /\ [](Dispatched =>
            SumSeq(RoundSizes) = Min(total_incidents - roundStart, NUM_WORKERS * BATCH_SIZE))

\* No job failed, jobs returned fewer records than asked (one of them none),
\* more records were requested than were missing at start, and the run is at
\* Done with exactly T records.
C25_Witness ==
    /\ pc = "done"
    /\ inexact
    /\ failedRequested = 0
    /\ NoOverReturn
    /\ rounds >= 3
    /\ Len(all_incidents) = total_incidents
    /\ requested >= total_incidents - existing_count + 2
=============================================================================
